---- MODULE Spec2Model ----
(***************************************************************************)
(* Model of the ACGAN training script acgan/cancer128/cancer_acgan.py:     *)
(* model construction and compilation, the run / epoch / batch loops, the  *)
(* arguments handed to train_on_batch and evaluate, the loss histories and *)
(* the periodic checkpoint.                                                *)
(*                                                                         *)
(* Real numbers are fixed-point integers in units of 1/One (0.95 is 95).   *)
(* Images and labels of the data set are identified by their 1-based       *)
(* position in x_train / y_train; a generated image or a sampled label is  *)
(* written 0.  Network weights are abstract values of WeightVals: a        *)
(* training call may leave any value in every weight group it optimises.   *)
(***************************************************************************)
EXTENDS Integers, Sequences, FiniteSets, TLC

\* ---- sizes (the script's values scaled down) and model bounds ----
max_runs == 2
epochs == 100
batch_size == 2
MaxTrain == 7
MaxTest == 2
MaxWeight == 1

\* ---- program constants ----
One == 100
soft_zero == 0
soft_one == 95
HardZero == 0
WeightReal == 2

WeightVals == 0..MaxWeight

VARIABLES pc, discTrainable, discCollected, combCollected, wG, wD,
          num_train, num_test, nrun, epoch, index, num_batches,
          disc_sample_weight, epoch_disc_loss, epoch_gen_loss,
          train_history, test_history,
          disc_call, gen_call, test_disc_call, test_gen_call,
          updates, used, files, pickled, epoch_writes

vars == <<pc, discTrainable, discCollected, combCollected, wG, wD,
          num_train, num_test, nrun, epoch, index, num_batches,
          disc_sample_weight, epoch_disc_loss, epoch_gen_loss,
          train_history, test_history,
          disc_call, gen_call, test_disc_call, test_gen_call,
          updates, used, files, pickled, epoch_writes>>

setupVars == <<discTrainable, discCollected, combCollected>>
dataVars == <<num_train, num_test>>
weightVars == <<wG, wD>>
histVars == <<train_history, test_history>>
callVars == <<disc_call, gen_call, test_disc_call, test_gen_call>>
fileVars == <<files, pickled, epoch_writes>>

\* ---- numpy helpers ----
Min(a, b) == IF a < b THEN a ELSE b

Rep(v, n) == [i \in 1..n |-> v]

Ones(n) == Rep(One, n)

Zeros(n) == Rep(0, n)

\* vector times a fixed-point scalar
Times(v, c) == [i \in DOMAIN v |-> (v[i] * c) \div One]

\* vector times a python integer
TimesInt(v, k) == [i \in DOMAIN v |-> v[i] * k]

RECURSIVE SumSeq(_)
SumSeq(s) == IF s = <<>> THEN 0 ELSE Head(s) + SumSeq(Tail(s))

\* s[lo:hi] for 0 <= lo <= hi: both ends are clipped to the length
PySlice(s, lo, hi) == SubSeq(s, Min(lo, Len(s)) + 1, Min(hi, Len(s)))

Elems(s) == {s[i] : i \in DOMAIN s}

\* ---- the data set ----
x_train == [i \in 1..num_train |-> i]

y_train == [i \in 1..num_train |-> i]

x_test == [i \in 1..num_test |-> i]

y_test == [i \in 1..num_test |-> i]

GeneratedImages(n) == Rep(0, n)

SampledLabels(n) == Rep(0, n)

EmptyHistory == [generator |-> <<>>, discriminator |-> <<>>, accuracy |-> <<>>]

NoDiscCall == [x |-> <<>>, y |-> <<>>, aux_y |-> <<>>, sample_weight |-> << <<>>, <<>> >>]

NoGenCall == [noise |-> 0, labels |-> <<>>, trick |-> <<>>, aux_y |-> <<>>]

Init ==
    /\ pc = "build_discriminator"
    /\ discTrainable = TRUE
    /\ discCollected = {}
    /\ combCollected = {}
    /\ wG \in WeightVals
    /\ wD \in WeightVals
    /\ num_train = 0
    /\ num_test = 0
    /\ nrun = 0
    /\ epoch = 0
    /\ index = 0
    /\ num_batches = 0
    /\ disc_sample_weight = << <<>>, <<>> >>
    /\ epoch_disc_loss = <<>>
    /\ epoch_gen_loss = <<>>
    /\ train_history = EmptyHistory
    /\ test_history = EmptyHistory
    /\ disc_call = NoDiscCall
    /\ gen_call = NoGenCall
    /\ test_disc_call = NoDiscCall
    /\ test_gen_call = NoGenCall
    /\ updates = <<>>
    /\ used = {}
    /\ files = {}
    /\ pickled = [r \in 1..max_runs |-> <<>>]
    /\ epoch_writes = <<>>

\* ---- construction ----

\* compile() collects the weight groups that are trainable at that moment
CompileDiscriminator ==
    /\ pc = "build_discriminator"
    /\ discCollected' = (IF discTrainable THEN {"D"} ELSE {})
    /\ pc' = "freeze"
    /\ UNCHANGED <<discTrainable, combCollected, weightVars, dataVars, nrun, epoch,
                   index, num_batches, disc_sample_weight, epoch_disc_loss,
                   epoch_gen_loss, histVars, callVars, updates, used, fileVars>>

FreezeDiscriminatorSkipped ==
    /\ pc = "freeze"
    /\ pc' = "compile_combined"
    /\ UNCHANGED <<setupVars, weightVars, dataVars, nrun, epoch,
                   index, num_batches, disc_sample_weight, epoch_disc_loss,
                   epoch_gen_loss, histVars, callVars, updates, used, fileVars>>

FreezeDiscriminator ==
    /\ pc = "freeze"
    /\ discTrainable' = FALSE
    /\ pc' = "compile_combined"
    /\ UNCHANGED <<discCollected, combCollected, weightVars, dataVars, nrun, epoch,
                   index, num_batches, disc_sample_weight, epoch_disc_loss,
                   epoch_gen_loss, histVars, callVars, updates, used, fileVars>>

CompileCombined ==
    /\ pc = "compile_combined"
    /\ combCollected' = {"G"} \cup (IF discTrainable THEN {"D"} ELSE {})
    /\ pc' = "get_data"
    /\ UNCHANGED <<discTrainable, discCollected, weightVars, dataVars, nrun, epoch,
                   index, num_batches, disc_sample_weight, epoch_disc_loss,
                   epoch_gen_loss, histVars, callVars, updates, used, fileVars>>

GetData ==
    /\ pc = "get_data"
    /\ \E nt \in 0..MaxTrain, ns \in 1..MaxTest :
          /\ num_train' = nt
          /\ num_test' = ns
    /\ pc' = "run_loop"
    /\ UNCHANGED <<setupVars, weightVars, nrun, epoch,
                   index, num_batches, disc_sample_weight, epoch_disc_loss,
                   epoch_gen_loss, histVars, callVars, updates, used, fileVars>>

\* ---- framework calls ----

\* train_on_batch of a model whose compile collected the groups in coll
TrainOnBatch(coll) ==
    /\ wG' \in (IF "G" \in coll THEN WeightVals ELSE {wG})
    /\ wD' \in (IF "D" \in coll THEN WeightVals ELSE {wD})

\* ---- the run loop ----
RunStart ==
    /\ pc = "run_loop"
    /\ nrun < max_runs
    /\ nrun' = nrun + 1
    /\ train_history' = EmptyHistory
    /\ test_history' = EmptyHistory
    /\ epoch' = 0
    /\ epoch_writes' = <<>>
    /\ pc' = "epoch_loop"
    /\ UNCHANGED <<setupVars, weightVars, dataVars,
                   index, num_batches, disc_sample_weight, epoch_disc_loss,
                   epoch_gen_loss, callVars, updates, used, files, pickled>>

Finish ==
    /\ pc = "run_loop"
    /\ nrun = max_runs
    /\ pc' = "done"
    /\ UNCHANGED <<setupVars, weightVars, dataVars, nrun, epoch,
                   index, num_batches, disc_sample_weight, epoch_disc_loss,
                   epoch_gen_loss, histVars, callVars, updates, used, fileVars>>

RunEnd ==
    /\ pc = "epoch_loop"
    /\ epoch = epochs
    /\ pc' = "run_loop"
    /\ UNCHANGED <<setupVars, weightVars, dataVars, nrun, epoch,
                   index, num_batches, disc_sample_weight, epoch_disc_loss,
                   epoch_gen_loss, histVars, callVars, updates, used, fileVars>>

\* ---- the epoch ----
NumBatchesCeil(n, bs) == (n + bs - 1) \div bs

NumBatches(n, bs) == n \div bs

DiscSampleWeightUniform(bs) == <<Ones(2 * bs), Ones(2 * bs)>>

DiscSampleWeight(bs) ==
    <<Ones(2 * bs), TimesInt(Ones(bs), WeightReal) \o Zeros(bs)>>

EpochStart ==
    /\ pc = "epoch_loop"
    /\ epoch < epochs
    /\ epoch' = epoch + 1
    /\ num_batches' = NumBatches(Len(x_train), batch_size)
    /\ disc_sample_weight' = DiscSampleWeight(batch_size)
    /\ epoch_gen_loss' = <<>>
    /\ epoch_disc_loss' = <<>>
    /\ updates' = <<>>
    /\ epoch_writes' = <<>>
    /\ index' = 0
    /\ pc' = (IF NumBatches(Len(x_train), batch_size) > 0 THEN "batch" ELSE "test")
    /\ UNCHANGED <<setupVars, weightVars, dataVars, nrun,
                   histVars, callVars, used, files, pickled>>

\* ---- one batch: discriminator update, then generator update ----
DiscTargets(bs) == Rep(soft_one, bs) \o Rep(soft_zero, bs)

DiscUpdate ==
    /\ pc = "batch"
    /\ LET image_batch == PySlice(x_train, index * batch_size, (index + 1) * batch_size)
           label_batch == PySlice(y_train, index * batch_size, (index + 1) * batch_size)
           sampled_labels == SampledLabels(batch_size)
           generated_images == GeneratedImages(Len(sampled_labels))
       IN  /\ disc_call' = [x |-> image_batch \o generated_images,
                            y |-> DiscTargets(batch_size),
                            aux_y |-> label_batch \o sampled_labels,
                            sample_weight |-> disc_sample_weight]
           /\ used' = used \cup Elems(image_batch)
    /\ TrainOnBatch(discCollected)
    /\ epoch_disc_loss' = Append(epoch_disc_loss, index)
    /\ updates' = Append(updates, "D")
    /\ pc' = "gen_update"
    /\ UNCHANGED <<setupVars, dataVars, nrun, epoch, index, num_batches,
                   disc_sample_weight, epoch_gen_loss, histVars,
                   gen_call, test_disc_call, test_gen_call, fileVars>>

GenTrickHard(bs) == Ones(2 * bs)

GenTrick(bs) == Times(Ones(2 * bs), soft_one)

GenUpdateSkipped ==
    /\ pc = "gen_update"
    /\ index' = index + 1
    /\ pc' = (IF index + 1 < num_batches THEN "batch" ELSE "test")
    /\ UNCHANGED <<setupVars, weightVars, dataVars, nrun, epoch, num_batches,
                   disc_sample_weight, epoch_disc_loss, epoch_gen_loss, histVars,
                   callVars, updates, used, fileVars>>

GenUpdate ==
    /\ pc = "gen_update"
    /\ LET sampled_labels == SampledLabels(2 * batch_size)
       IN  gen_call' = [noise |-> 2 * batch_size,
                        labels |-> sampled_labels,
                        trick |-> GenTrick(batch_size),
                        aux_y |-> sampled_labels]
    /\ TrainOnBatch(combCollected)
    /\ epoch_gen_loss' = Append(epoch_gen_loss, index)
    /\ updates' = Append(updates, "G")
    /\ index' = index + 1
    /\ pc' = (IF index + 1 < num_batches THEN "batch" ELSE "test")
    /\ UNCHANGED <<setupVars, dataVars, nrun, epoch, num_batches,
                   disc_sample_weight, epoch_disc_loss, histVars,
                   disc_call, test_disc_call, test_gen_call, used, fileVars>>

\* ---- end-of-epoch evaluation: predict and evaluate only ----
Test ==
    /\ pc = "test"
    /\ LET sampled_labels == SampledLabels(num_test)
           generated_images == GeneratedImages(Len(sampled_labels))
       IN  test_disc_call' = [x |-> x_test \o generated_images,
                              y |-> Rep(One, num_test) \o Rep(HardZero, num_test),
                              aux_y |-> y_test \o sampled_labels,
                              sample_weight |-> << <<>>, <<>> >>]
    /\ test_gen_call' = [noise |-> 2 * num_test,
                         labels |-> SampledLabels(2 * num_test),
                         trick |-> Ones(2 * num_test),
                         aux_y |-> SampledLabels(2 * num_test)]
    /\ pc' = "report"
    /\ UNCHANGED <<setupVars, weightVars, dataVars, nrun, epoch, index, num_batches,
                   disc_sample_weight, epoch_disc_loss, epoch_gen_loss, histVars,
                   disc_call, gen_call, updates, used, fileVars>>

\* ---- epoch report ----
\* the mean of an empty loss list is a scalar nan, which the report cannot
\* unpack into a row: the script stops with a TypeError after the appends
ReportNoAccuracy ==
    /\ pc = "report"
    /\ train_history' = [train_history EXCEPT
                            !.generator = Append(@, epoch),
                            !.discriminator = Append(@, epoch)]
    /\ test_history' = [test_history EXCEPT
                            !.generator = Append(@, epoch),
                            !.discriminator = Append(@, epoch)]
    /\ pc' = (IF epoch_gen_loss = <<>> THEN "crashed" ELSE "checkpoint")
    /\ UNCHANGED <<setupVars, weightVars, dataVars, nrun, epoch, index, num_batches,
                   disc_sample_weight, epoch_disc_loss, epoch_gen_loss,
                   callVars, updates, used, fileVars>>

Report ==
    /\ pc = "report"
    /\ train_history' = [train_history EXCEPT
                            !.generator = Append(@, epoch),
                            !.discriminator = Append(@, epoch)]
    /\ test_history' = [test_history EXCEPT
                            !.generator = Append(@, epoch),
                            !.discriminator = Append(@, epoch),
                            !.accuracy = Append(@, epoch)]
    /\ pc' = (IF epoch_gen_loss = <<>> THEN "crashed" ELSE "checkpoint")
    /\ UNCHANGED <<setupVars, weightVars, dataVars, nrun, epoch, index, num_batches,
                   disc_sample_weight, epoch_disc_loss, epoch_gen_loss,
                   callVars, updates, used, fileVars>>

\* ---- checkpoint ----
IsCheckpointEpochZeroBased(e) == ~((e - 1) % 50 /= 0)

IsCheckpointEpoch(e) == ~(e % 50 /= 0)

WeightsPath(run, kind, e) == [run |-> run, kind |-> kind, epoch |-> e]

\* 'acgan-history.pkl' carries no epoch number: one file per run
HistoryPath(run) == [run |-> run, kind |-> "history", epoch |-> 0]

PlotPath(run, e) == [run |-> run, kind |-> "plot", epoch |-> e]

SkipCheckpoint ==
    /\ pc = "checkpoint"
    /\ ~IsCheckpointEpoch(epoch)
    /\ pc' = "epoch_loop"
    /\ UNCHANGED <<setupVars, weightVars, dataVars, nrun, epoch, index, num_batches,
                   disc_sample_weight, epoch_disc_loss, epoch_gen_loss, histVars,
                   callVars, updates, used, fileVars>>

SaveGenerator ==
    /\ pc = "checkpoint"
    /\ IsCheckpointEpoch(epoch)
    /\ files' = files \cup {WeightsPath(nrun, "generator", epoch)}
    /\ epoch_writes' = Append(epoch_writes, WeightsPath(nrun, "generator", epoch))
    /\ pc' = "save_discriminator"
    /\ UNCHANGED <<setupVars, weightVars, dataVars, nrun, epoch, index, num_batches,
                   disc_sample_weight, epoch_disc_loss, epoch_gen_loss, histVars,
                   callVars, updates, used, pickled>>

SaveDiscriminator ==
    /\ pc = "save_discriminator"
    /\ files' = files \cup {WeightsPath(nrun, "discriminator", epoch)}
    /\ epoch_writes' = Append(epoch_writes, WeightsPath(nrun, "discriminator", epoch))
    /\ pc' = "dump_history"
    /\ UNCHANGED <<setupVars, weightVars, dataVars, nrun, epoch, index, num_batches,
                   disc_sample_weight, epoch_disc_loss, epoch_gen_loss, histVars,
                   callVars, updates, used, pickled>>

DumpHistory ==
    /\ pc = "dump_history"
    /\ files' = files \cup {HistoryPath(nrun)}
    /\ pickled' = [pickled EXCEPT ![nrun] = [train |-> train_history, test |-> test_history]]
    /\ epoch_writes' = Append(epoch_writes, HistoryPath(nrun))
    /\ pc' = "plot"
    /\ UNCHANGED <<setupVars, weightVars, dataVars, nrun, epoch, index, num_batches,
                   disc_sample_weight, epoch_disc_loss, epoch_gen_loss, histVars,
                   callVars, updates, used>>

SavePlot ==
    /\ pc = "plot"
    /\ files' = files \cup {PlotPath(nrun, epoch)}
    /\ epoch_writes' = Append(epoch_writes, PlotPath(nrun, epoch))
    /\ pc' = "epoch_loop"
    /\ UNCHANGED <<setupVars, weightVars, dataVars, nrun, epoch, index, num_batches,
                   disc_sample_weight, epoch_disc_loss, epoch_gen_loss, histVars,
                   callVars, updates, used, pickled>>

Next ==
    \/ CompileDiscriminator
    \/ FreezeDiscriminator
    \/ CompileCombined
    \/ GetData
    \/ RunStart
    \/ RunEnd
    \/ Finish
    \/ EpochStart
    \/ DiscUpdate
    \/ GenUpdate
    \/ Test
    \/ Report
    \/ SkipCheckpoint
    \/ SaveGenerator
    \/ SaveDiscriminator
    \/ DumpHistory
    \/ SavePlot

Spec == Init /\ [][Next]_vars

\* ---- properties ----
InEpoch == pc \in {"batch", "gen_update", "test", "report", "checkpoint",
                   "save_discriminator", "dump_history", "plot"}

EpochEnd == pc = "epoch_loop" /\ epoch >= 1

IsReal(v) == v > 0

UpTo(n) == [i \in 1..n |-> i]

HistoryLists(tr, te) ==
    <<tr.generator, tr.discriminator, te.generator, te.discriminator, te.accuracy>>

CheckpointOrder(run, e) ==
    <<WeightsPath(run, "generator", e), WeightsPath(run, "discriminator", e),
      HistoryPath(run), PlotPath(run, e)>>

\* C1: within an epoch the updates strictly alternate, discriminator first,
\* one pair per batch index in increasing order; the number of discriminator
\* updates minus the number of generator updates is 0 or 1, and it is 0 with
\* num_batches pairs done once the batch loop of the epoch is over.
C1_Alternation ==
    /\ \A i \in DOMAIN updates : updates[i] = (IF i % 2 = 1 THEN "D" ELSE "G")
    /\ Len(updates) = Len(epoch_disc_loss) + Len(epoch_gen_loss)
    /\ Len(epoch_disc_loss) - Len(epoch_gen_loss) \in {0, 1}
    /\ (Len(epoch_disc_loss) - Len(epoch_gen_loss) = 1) <=> (pc = "gen_update")
    /\ \A i \in DOMAIN epoch_disc_loss : epoch_disc_loss[i] = i - 1
    /\ \A i \in DOMAIN epoch_gen_loss : epoch_gen_loss[i] = i - 1
    /\ (InEpoch /\ pc \notin {"batch", "gen_update"}) \/ EpochEnd =>
          /\ Len(epoch_disc_loss) = num_batches
          /\ Len(epoch_gen_loss) = num_batches

C1_Witness ==
    /\ EpochEnd
    /\ nrun = max_runs
    /\ Len(updates) >= 4

C3_SampleWeights ==
    disc_call /= NoDiscCall =>
       LET w == disc_call.sample_weight
           x == disc_call.x
       IN  /\ DOMAIN w[1] = DOMAIN x
           /\ DOMAIN w[2] = DOMAIN x
           /\ \A i \in DOMAIN x : w[1][i] = One
           /\ \A i \in DOMAIN x : w[2][i] = (IF IsReal(x[i]) THEN 2 * One ELSE 0)
           /\ Cardinality({i \in DOMAIN x : IsReal(x[i])}) = batch_size
           /\ Cardinality({i \in DOMAIN x : ~IsReal(x[i])}) = batch_size
           /\ SumSeq(w[1]) = 2 * batch_size * One
           /\ SumSeq(w[2]) = 2 * batch_size * One

C3_Witness ==
    /\ pc = "gen_update"
    /\ disc_call /= NoDiscCall
    /\ index >= 1

\* C4: training targets are one-sided soft labels: 0.95 for the real images in
\* the first batch_size positions of a discriminator update, exactly 0 for the
\* generated images in the last batch_size positions, 0.95 for all
\* 2 * batch_size samples of a generator update, never 1; the end-of-epoch
\* evaluation uses the hard targets 1 and 0.
C4_OneSidedSmoothing ==
    /\ disc_call /= NoDiscCall =>
          /\ Len(disc_call.y) = 2 * batch_size
          /\ Len(disc_call.x) = 2 * batch_size
          /\ \A i \in 1..(2 * batch_size) :
                /\ IsReal(disc_call.x[i]) <=> i <= batch_size
                /\ disc_call.y[i] = (IF i <= batch_size THEN 95 ELSE 0)
                /\ disc_call.y[i] /= One
    /\ gen_call /= NoGenCall =>
          /\ Len(gen_call.trick) = 2 * batch_size
          /\ \A i \in 1..(2 * batch_size) : gen_call.trick[i] = 95
    /\ test_disc_call /= NoDiscCall =>
          /\ Len(test_disc_call.y) = Len(test_disc_call.x)
          /\ \A i \in DOMAIN test_disc_call.x :
                test_disc_call.y[i] = (IF IsReal(test_disc_call.x[i]) THEN One ELSE 0)
    /\ test_gen_call /= NoGenCall =>
          /\ Len(test_gen_call.trick) = test_gen_call.noise
          /\ \A i \in DOMAIN test_gen_call.trick : test_gen_call.trick[i] = One

C4_Witness ==
    /\ pc = "report"
    /\ disc_call /= NoDiscCall
    /\ gen_call /= NoGenCall
    /\ test_disc_call /= NoDiscCall
    /\ test_gen_call /= NoGenCall

\* C5: the histories are empty at the start of a run; at the end of epoch e
\* each of the five lists holds the entries of epochs 1..e in order; the entry
\* of epoch e is appended after the batch loop and the evaluation of epoch e
\* and before its checkpoint, so the history pickled at epoch e holds e
\* entries per key.
C5_History ==
    /\ pc = "epoch_loop" =>
          \A i \in 1..5 : HistoryLists(train_history, test_history)[i] = UpTo(epoch)
    /\ pc \in {"batch", "gen_update", "test", "report"} =>
          \A i \in 1..5 : HistoryLists(train_history, test_history)[i] = UpTo(epoch - 1)
    /\ pc \in {"checkpoint", "save_discriminator", "dump_history", "plot"} =>
          /\ \A i \in 1..5 : HistoryLists(train_history, test_history)[i] = UpTo(epoch)
          /\ Len(epoch_gen_loss) = num_batches
          /\ Len(epoch_disc_loss) = num_batches
          /\ test_disc_call /= NoDiscCall
    /\ pc = "plot" \/ (EpochEnd /\ epoch % 50 = 0) =>
          /\ pickled[nrun] /= <<>>
          /\ \A i \in 1..5 :
                HistoryLists(pickled[nrun].train, pickled[nrun].test)[i] = UpTo(epoch)

C5_Witness ==
    /\ pc = "plot"
    /\ nrun = max_runs
    /\ epoch = 100
    /\ Len(pickled[nrun].test.accuracy) = 100

\* C6: after each epoch of each run a generator weights file and a
\* discriminator weights file for that epoch have been written.
C6_WeightsEveryEpoch ==
    EpochEnd =>
       /\ WeightsPath(nrun, "generator", epoch) \in files
       /\ WeightsPath(nrun, "discriminator", epoch) \in files

\* C7: num_batches is floor(num_train / batch_size); every real-image and
\* label slice holds exactly batch_size elements, the discriminator update
\* sees batch_size real then batch_size generated samples, as many as its
\* sample weights, the generator update uses 2 * batch_size noise vectors and
\* labels, and the trailing num_train mod batch_size images are never used.
C7_BatchSizes ==
    /\ InEpoch \/ EpochEnd =>
          /\ num_batches * batch_size <= num_train
          /\ num_train < (num_batches + 1) * batch_size
    /\ disc_call /= NoDiscCall =>
          /\ Len(disc_call.x) = 2 * batch_size
          /\ Len(disc_call.aux_y) = 2 * batch_size
          /\ Len(disc_call.y) = 2 * batch_size
          /\ Len(disc_call.sample_weight[1]) = Len(disc_call.x)
          /\ Len(disc_call.sample_weight[2]) = Len(disc_call.x)
          /\ \A i \in 1..(2 * batch_size) :
                /\ IsReal(disc_call.x[i]) <=> i <= batch_size
                /\ IsReal(disc_call.aux_y[i]) <=> i <= batch_size
    /\ pc = "gen_update" =>
          \A i \in 1..batch_size :
             /\ disc_call.x[i] = index * batch_size + i
             /\ disc_call.aux_y[i] = index * batch_size + i
    /\ gen_call /= NoGenCall =>
          /\ gen_call.noise = 2 * batch_size
          /\ Len(gen_call.labels) = 2 * batch_size
          /\ Len(gen_call.trick) = 2 * batch_size
          /\ Len(gen_call.aux_y) = 2 * batch_size
          /\ gen_call.noise = Len(disc_call.x)
    /\ \A i \in used : i <= num_train - (num_train % batch_size)
    /\ EpochEnd => used = 1..(num_train - (num_train % batch_size))

C7_Witness ==
    /\ EpochEnd
    /\ num_train % batch_size /= 0
    /\ num_batches >= 2
    /\ gen_call /= NoGenCall

\* C8: a generator update leaves the discriminator's weights unchanged, a
\* discriminator update leaves the generator's weights unchanged, and every
\* other step (predict, evaluate, bookkeeping, saving) changes no weights.
C8_Frame ==
    [][ /\ pc = "gen_update" => wD' = wD
        /\ pc = "batch" => wG' = wG
        /\ pc \notin {"batch", "gen_update"} => (wG' = wG /\ wD' = wD) ]_vars

C8_Witness ==
    /\ pc = "report"
    /\ Len(updates) >= 2
    /\ discCollected = {"D"}
    /\ combCollected = {"G"}
    /\ wG /= wD
====
